---- MODULE Spec2Model ----
(***************************************************************************)
(* Model of the RotaryEncoder library (src/src/RotaryEncoder.cpp/.h): the  *)
(* quadrature decoder with its three latch modes, the position override,   *)
(* the direction query and the timing accessors.                           *)
(*                                                                         *)
(* int32_t values are TLC integers in MinInt32..MaxInt32 with explicit     *)
(* two's-complement wraparound.  uint32_t values (the millisecond clock    *)
(* and the two timestamps) are pairs <<hi, lo>> of 16-bit halves, because  *)
(* values above 2^31-1 do not fit a TLC integer.                           *)
(***************************************************************************)
EXTENDS Integers, Sequences, FiniteSets, TLC

VARIABLES
    _eMode,                   \* LatchMode given to the constructor
    _i08OldState,             \* last sampled 2-bit pin state
    _i32Position,             \* internal position
    _i32PositionExt,          \* external position
    _i32PositionExtPrev,      \* external position at the last direction check
    _u32PositionExtTime,      \* time of the last latch
    _u32PositionExtTimePrev,  \* time of the latch before
    now,                      \* the value millis() returns
    op,                       \* last operation called
    arg,                      \* its input (sampled state / new position)
    ret,                      \* its return value
    pre,                      \* the fields before the last operation
    fault,                    \* "div0" once getRPM divided by zero
    run,                      \* monitor of the current one-direction run of ticks
    dirFresh,                 \* getDirection was called and no tick() since
    lastSet,                  \* how the latest setPosition() went, until the next step
    dirRet,                   \* what the latest getDirection() returned
    mirror,                   \* a second decoder fed the samples with the pins exchanged
    irq,                      \* the accessor call that tick() may interrupt
    nTicks, nSets, nAdv, nDirs \* operation counters (bounded)

fields == <<_i08OldState, _i32Position, _i32PositionExt, _i32PositionExtPrev,
            _u32PositionExtTime, _u32PositionExtTimePrev>>

vars == <<_eMode, _i08OldState, _i32Position, _i32PositionExt,
          _i32PositionExtPrev, _u32PositionExtTime, _u32PositionExtTimePrev,
          now, op, arg, ret, pre, fault, run, dirFresh, lastSet, dirRet,
          mirror, irq, nTicks, nSets, nAdv, nDirs>>

-----------------------------------------------------------------------------
(* Bounds of the exploration *)

MaxTicks == 6
MaxSets == 1
MaxAdv == 2
MaxDirs == 2
MaxOps == 4
MaxIrqSteps == 4

-----------------------------------------------------------------------------
(* int32_t arithmetic *)

MaxInt32 == 2147483647
MinInt32 == (-2147483647) - 1
Two29 == 536870912
Two30 == 1073741824

\* x + d for d in {-1, 0, 1}, wrapping at the int32 limits
AddWrap(x, d) ==
    IF d = 1 /\ x = MaxInt32 THEN MinInt32
    ELSE IF d = -1 /\ x = MinInt32 THEN MaxInt32
    ELSE x + d

\* a division that rounds towards zero in place of the shift
Sar_truncating(x, s) ==
    LET d == IF s = 1 THEN 2 ELSE 4
    IN  IF x < 0 THEN (x + (d - 1)) \div d ELSE x \div d

\* x >> 1 and x >> 2 on int32_t: arithmetic shift, i.e. floor division
Sar(x, s) == IF s = 1 THEN x \div 2 ELSE x \div 4

\* x << 1 on int32_t: bit 31 is shifted out, bit 30 becomes the sign
Shl1(x) ==
    LET m == IF x >= Two30 THEN (x - Two30) - Two30
             ELSE IF x < -Two30 THEN (x + Two30) + Two30
             ELSE x
    IN  2 * m

Shl(x, s) == IF s = 1 THEN Shl1(x) ELSE Shl1(Shl1(x))

\* x & mask for mask in {0x01, 0x03}: the low bits in two's complement
AndLow(x, mask) == x % (mask + 1)

\* a | b for two values in 0..3
Or2(a, b) ==
    LET bit0 == IF (a % 2 = 1) \/ (b % 2 = 1) THEN 1 ELSE 0
        bit1 == IF (a \div 2 = 1) \/ (b \div 2 = 1) THEN 2 ELSE 0
    IN  bit1 + bit0

\* a | b on int32_t for b in 0..3: only the two low bits of a can change
OrLow(a, b) == (a - AndLow(a, 3)) + Or2(AndLow(a, 3), b)

-----------------------------------------------------------------------------
(* uint32_t arithmetic on <<hi, lo>> pairs of 16-bit halves *)

Half == 65536

U32(n) == <<n \div Half, n % Half>>

U32Max32 == <<Half - 1, Half - 1>>

\* a + d modulo 2^32, for 0 <= d <= MaxInt32
U32Add(a, d) ==
    LET lo == a[2] + (d % Half)
        hi == a[1] + (d \div Half) + (lo \div Half)
    IN  <<hi % Half, lo % Half>>

\* a - b modulo 2^32
U32Sub(a, b) ==
    LET lo == a[2] - b[2]
        borrow == IF lo < 0 THEN 1 ELSE 0
    IN  <<(a[1] - b[1] - borrow) % Half, lo % Half>>

U32Greater(a, b) == (a[1] > b[1]) \/ (a[1] = b[1] /\ a[2] > b[2])

\* Arduino's max(a, b): ((a) > (b) ? (a) : (b))
max(a, b) == IF U32Greater(a, b) THEN a ELSE b

\* t * 20 modulo 2^32
U32Mul20(t) ==
    LET lo == t[2] * 20
    IN  <<(t[1] * 20 + (lo \div Half)) % Half, lo % Half>>

-----------------------------------------------------------------------------
(* The decoder *)

LATCH0 == 0
LATCH3 == 3

LatchModes == {"FOUR3", "FOUR0", "TWO03"}

\* the table with the two entries of the transition 3 -> 1 and 3 -> 2 exchanged
ci08KNOBDIR_exchanged == << 0, -1,  1,  0,
                            1,  0,  0, -1,
                           -1,  0,  0,  1,
                            0, -1,  1,  0>>

\* the table with a count for the two-bit transition 0 -> 3
ci08KNOBDIR_twoBit == << 0, -1,  1,  1,
                         1,  0,  0, -1,
                        -1,  0,  0,  1,
                         0,  1, -1,  0>>

\* the table without the count for the transition 3 -> 1
ci08KNOBDIR_missing == << 0, -1,  1,  0,
                          1,  0,  0, -1,
                         -1,  0,  0,  1,
                          0,  0, -1,  0>>

\* ci08KNOBDIR[i] of the source is ci08KNOBDIR[i + 1] here
ci08KNOBDIR == << 0, -1,  1,  0,
                  1,  0,  0, -1,
                 -1,  0,  0,  1,
                  0,  1, -1,  0>>

\* the latch conditions of the two four-step modes exchanged
Latches_exchanged(mode, thisState) ==
    CASE mode = "FOUR3" -> thisState = LATCH0
      [] mode = "FOUR0" -> thisState = LATCH3
      [] mode = "TWO03" -> (thisState = LATCH0) \/ (thisState = LATCH3)

\* the latch condition of the two-step mode tested in every mode
Latches_both(mode, thisState) == (thisState = LATCH0) \/ (thisState = LATCH3)

\* the latch condition tick() tests for each mode
Latches(mode, thisState) ==
    CASE mode = "FOUR3" -> thisState = LATCH3
      [] mode = "FOUR0" -> thisState = LATCH0
      [] mode = "TWO03" -> (thisState = LATCH0) \/ (thisState = LATCH3)

\* the shift of the four-step modes used in every mode
ShiftOf_four(mode) == 2

\* the shift tick() and setPosition() use for each mode
ShiftOf(mode) == IF mode = "TWO03" THEN 1 ELSE 2

\* the mask of the four-step modes used in every mode
MaskOf_four(mode) == 3

\* the mask setPosition() uses for each mode
MaskOf(mode) == IF mode = "TWO03" THEN 1 ELSE 3

Snapshot ==
    [state |-> _i08OldState, pos |-> _i32Position, ext |-> _i32PositionExt,
     prev |-> _i32PositionExtPrev, time |-> _u32PositionExtTime,
     timePrev |-> _u32PositionExtTimePrev, now |-> now,
     fresh |-> dirFresh, lastSet |-> lastSet, dirRet |-> dirRet]

\* the latch states of each mode
IsLatchState(mode, s) ==
    \/ mode = "FOUR3" /\ s = 3
    \/ mode = "FOUR0" /\ s = 0
    \/ mode = "TWO03" /\ s \in {0, 3}

\* raw steps per detent of each mode
StepsPerDetent(mode) == IF mode = "TWO03" THEN 2 ELSE 4

NoRun == [len |-> 0, dir |-> 0, ext0 |-> 0, pos0 |-> 0, wrapped0 |-> FALSE]

\* the clockwise order of the raw states: [3] 1 0 2 [3]
CWNext(s) == CASE s = 3 -> 1 [] s = 1 -> 0 [] s = 0 -> 2 [] s = 2 -> 3

\* direction of a single-bit transition, 0 for none or both bits
StepDir(old, cur) ==
    IF cur = CWNext(old) THEN 1 ELSE IF old = CWNext(cur) THEN -1 ELSE 0

\* what the two timestamps, which the constructor does not set, may hold:
\* zeroes in a static object, anything in an automatic one
Garbage == {<<U32(0), U32(0)>>, <<U32(7), U32(3)>>}

\* millis() at the time the object is constructed
StartTimes == {U32(0), <<65535, 65520>>}

\* positions given to setPosition()
NewPositions == {5, -3, Two29 - 1, -Two29, Two30 - 1, Two30, MinInt32}

\* a pause after which t * 20 no longer fits 32 bits (2^32 \div 20 + 1 ms)
LongPause == 214748365

\* milliseconds that pass between two operations
Delays == {26, 50, 100, LongPause}

\* no accessor call is under way: a and between are the values it has read
\* and computed, first the operand it read first, branch the result
\* getDirection() has chosen; time0, timePrev0 and ticks0 are the timestamps
\* and the number of ticks at the start of the call; base is externalPosition
\* at the end of the previous getDirection(), missed tells that this call
\* returned NOROTATION although externalPosition had left base; calls counts
\* the accessor calls
Idle == [pc |-> "idle", a |-> U32(0), between |-> U32(0), first |-> "none",
         branch |-> "none", time0 |-> U32(0), timePrev0 |-> U32(0),
         ticks0 |-> 0, base |-> 0, missed |-> FALSE, prevMissed |-> FALSE,
         calls |-> 0]

Init ==
    /\ _eMode \in LatchModes
    /\ _i08OldState = 3
    /\ _i32Position = 0
    /\ _i32PositionExt = 0
    /\ _i32PositionExtPrev = 0
    /\ \E g \in Garbage : /\ _u32PositionExtTime = g[1]
                           /\ _u32PositionExtTimePrev = g[2]
    /\ now \in StartTimes
    /\ op = "new"
    /\ arg = 0
    /\ ret = 0
    /\ pre = [state |-> 3, pos |-> 0, ext |-> 0, prev |-> 0,
              time |-> U32(0), timePrev |-> U32(0), now |-> U32(0),
              fresh |-> FALSE, lastSet |-> "none", dirRet |-> "none"]
    /\ fault = "none"
    /\ run = NoRun
    /\ dirFresh = FALSE
    /\ lastSet = "none"
    /\ dirRet = "none"
    /\ mirror = [valid |-> TRUE, state |-> 3, pos |-> 0, ext |-> 0,
                 aligned |-> TRUE]
    /\ irq = Idle
    /\ nTicks = 0 /\ nSets = 0 /\ nAdv = 0 /\ nDirs = 0

\* the run monitor after a tick from old to cur
NextRun(old, cur) ==
    LET d == StepDir(old, cur) IN
    IF d = 0 THEN NoRun
    ELSE IF IsLatchState(_eMode, old)
         THEN [len |-> 1, dir |-> d, ext0 |-> _i32PositionExt,
               pos0 |-> _i32Position, wrapped0 |-> (lastSet = "wrapped")]
    ELSE IF run.len > 0 /\ run.dir = d
         THEN [run EXCEPT !.len = @ + 1]
    ELSE NoRun

\* the test without which every sample counts as a change
StateChanged_always(oldState, thisState) == TRUE

\* the test tick() makes before it touches anything
StateChanged(oldState, thisState) == oldState # thisState

\* tick() as a function of the decoder d = [state, pos, ext] and the sample
TickOf(mode, d, thisState) ==
    IF StateChanged(d.state, thisState)
    THEN LET position == AddWrap(d.pos,
                            ci08KNOBDIR[(thisState + 4 * d.state) + 1])
         IN  [state |-> thisState,
              pos |-> position,
              ext |-> IF Latches(mode, thisState)
                      THEN Sar(position, ShiftOf(mode)) ELSE d.ext]
    ELSE d

\* the sample with pin 1 and pin 2 exchanged
Exchanged(thisState) ==
    CASE thisState = 1 -> 2 [] thisState = 2 -> 1 [] OTHER -> thisState

\* the second decoder after the exchanged sample; aligned tells whether the
\* first decoder latched a whole number of detents
NextMirror(thisState) ==
    LET m == TickOf(_eMode, mirror, Exchanged(thisState))
        d == TickOf(_eMode, [state |-> _i08OldState, pos |-> _i32Position,
                             ext |-> _i32PositionExt], thisState)
    IN  [valid |-> mirror.valid, state |-> m.state, pos |-> m.pos,
         ext |-> m.ext,
         aligned |-> IF StateChanged(_i08OldState, thisState)
                        /\ Latches(_eMode, thisState)
                     THEN d.pos % (IF ShiftOf(_eMode) = 1 THEN 2 ELSE 4) = 0
                     ELSE mirror.aligned]

\* the second decoder is given up when the position is overridden
NoMirror == [valid |-> FALSE, state |-> 3, pos |-> 0, ext |-> 0,
             aligned |-> TRUE]

\* tick() when digitalRead gives the 2-bit state thisState
tick(thisState) ==
    /\ nTicks < MaxTicks
    /\ nTicks' = nTicks + 1
    /\ op' = "tick" /\ arg' = thisState /\ ret' = 0 /\ pre' = Snapshot
    /\ dirFresh' = FALSE
    /\ run' = NextRun(_i08OldState, thisState)
    /\ mirror' = IF mirror.valid THEN NextMirror(thisState) ELSE mirror
    /\ IF StateChanged(_i08OldState, thisState)
       THEN LET position == AddWrap(_i32Position,
                              ci08KNOBDIR[(thisState + 4 * _i08OldState) + 1])
            IN  /\ _i32Position' = position
                /\ IF Latches(_eMode, thisState)
                   THEN /\ _i32PositionExt' = Sar(position, ShiftOf(_eMode))
                        /\ _u32PositionExtTimePrev' = _u32PositionExtTime
                        /\ _u32PositionExtTime' = now
                   ELSE UNCHANGED <<_i32PositionExt, _u32PositionExtTimePrev,
                                    _u32PositionExtTime>>
                /\ _i08OldState' = thisState
                /\ lastSet' = "none"
       ELSE UNCHANGED <<_i32Position, _i32PositionExt, _u32PositionExtTimePrev,
                        _u32PositionExtTime, _i08OldState, lastSet>>
    /\ UNCHANGED <<irq, _eMode, _i32PositionExtPrev, now, fault, dirRet,
                   nSets, nAdv, nDirs>>

\* getPosition() that also takes the snapshot of the direction check
getPosition_consuming ==
    /\ op' = "getPosition" /\ arg' = 0 /\ pre' = Snapshot
    /\ ret' = _i32PositionExt
    /\ _i32PositionExtPrev' = _i32PositionExt
    /\ UNCHANGED <<irq, _eMode, _i08OldState, _i32Position, _i32PositionExt,
                   _u32PositionExtTime, _u32PositionExtTimePrev,
                   now, fault, run, dirFresh, lastSet, dirRet, mirror,
                   nTicks, nSets, nAdv, nDirs>>

getPosition ==
    /\ op' = "getPosition" /\ arg' = 0 /\ pre' = Snapshot
    /\ ret' = _i32PositionExt
    /\ UNCHANGED <<irq, _eMode, fields, now, fault, run, dirFresh, lastSet, dirRet, mirror,
                   nTicks, nSets, nAdv, nDirs>>

\* getDirection() with the two comparisons exchanged
getDirection_exchanged ==
    /\ nDirs < MaxDirs
    /\ nDirs' = nDirs + 1
    /\ op' = "getDirection" /\ arg' = 0 /\ pre' = Snapshot
    /\ dirFresh' = TRUE
    /\ IF _i32PositionExtPrev < _i32PositionExt
       THEN /\ ret' = "COUNTERCLOCKWISE"
            /\ _i32PositionExtPrev' = _i32PositionExt
       ELSE IF _i32PositionExtPrev > _i32PositionExt
       THEN /\ ret' = "CLOCKWISE"
            /\ _i32PositionExtPrev' = _i32PositionExt
       ELSE /\ ret' = "NOROTATION"
            /\ _i32PositionExtPrev' = _i32PositionExt
    /\ dirRet' = ret'
    /\ UNCHANGED <<irq, _eMode, _i08OldState, _i32Position, _i32PositionExt,
                   _u32PositionExtTime, _u32PositionExtTimePrev, now, fault,
                   run, lastSet, mirror, nTicks, nSets, nAdv>>

\* getDirection() that keeps the old snapshot when it reports CLOCKWISE
getDirection_unconsumed ==
    /\ nDirs < MaxDirs
    /\ nDirs' = nDirs + 1
    /\ op' = "getDirection" /\ arg' = 0 /\ pre' = Snapshot
    /\ dirFresh' = TRUE
    /\ IF _i32PositionExtPrev > _i32PositionExt
       THEN /\ ret' = "COUNTERCLOCKWISE"
            /\ _i32PositionExtPrev' = _i32PositionExt
       ELSE IF _i32PositionExtPrev < _i32PositionExt
       THEN /\ ret' = "CLOCKWISE"
            /\ _i32PositionExtPrev' = _i32PositionExtPrev
       ELSE /\ ret' = "NOROTATION"
            /\ _i32PositionExtPrev' = _i32PositionExt
    /\ dirRet' = ret'
    /\ UNCHANGED <<irq, _eMode, _i08OldState, _i32Position, _i32PositionExt,
                   _u32PositionExtTime, _u32PositionExtTimePrev, now, fault,
                   run, lastSet, mirror, nTicks, nSets, nAdv>>

getDirection ==
    /\ nDirs < MaxDirs
    /\ nDirs' = nDirs + 1
    /\ op' = "getDirection" /\ arg' = 0 /\ pre' = Snapshot
    /\ dirFresh' = TRUE
    /\ IF _i32PositionExtPrev > _i32PositionExt
       THEN /\ ret' = "COUNTERCLOCKWISE"
            /\ _i32PositionExtPrev' = _i32PositionExt
       ELSE IF _i32PositionExtPrev < _i32PositionExt
       THEN /\ ret' = "CLOCKWISE"
            /\ _i32PositionExtPrev' = _i32PositionExt
       ELSE /\ ret' = "NOROTATION"
            /\ _i32PositionExtPrev' = _i32PositionExt
    /\ dirRet' = ret'
    /\ UNCHANGED <<irq, _eMode, _i08OldState, _i32Position, _i32PositionExt,
                   _u32PositionExtTime, _u32PositionExtTimePrev, now, fault,
                   run, lastSet, mirror, nTicks, nSets, nAdv>>

\* setPosition() that forgets the snapshot of the direction check
setPosition_noPrev(newPosition) ==
    /\ nSets < MaxSets
    /\ nSets' = nSets + 1
    /\ op' = "setPosition" /\ arg' = newPosition /\ ret' = 0 /\ pre' = Snapshot
    /\ run' = NoRun
    /\ mirror' = NoMirror
    /\ LET position == OrLow(Shl(newPosition, ShiftOf(_eMode)),
                             AndLow(_i32Position, MaskOf(_eMode)))
       IN  /\ _i32Position' = position
           /\ lastSet' = IF Sar(position, ShiftOf(_eMode)) = newPosition
                         THEN "exact" ELSE "wrapped"
    /\ _i32PositionExt' = newPosition
    /\ _i32PositionExtPrev' = _i32PositionExtPrev
    /\ UNCHANGED <<irq, _eMode, _i08OldState, _u32PositionExtTime,
                   _u32PositionExtTimePrev, now, fault, dirFresh, dirRet,
                   nTicks, nAdv, nDirs>>

setPosition(newPosition) ==
    /\ nSets < MaxSets
    /\ nSets' = nSets + 1
    /\ op' = "setPosition" /\ arg' = newPosition /\ ret' = 0 /\ pre' = Snapshot
    /\ run' = NoRun
    /\ mirror' = NoMirror
    /\ LET position == OrLow(Shl(newPosition, ShiftOf(_eMode)),
                             AndLow(_i32Position, MaskOf(_eMode)))
       IN  /\ _i32Position' = position
           /\ lastSet' = IF Sar(position, ShiftOf(_eMode)) = newPosition
                         THEN "exact" ELSE "wrapped"
    /\ _i32PositionExt' = newPosition
    /\ _i32PositionExtPrev' = newPosition
    /\ UNCHANGED <<irq, _eMode, _i08OldState, _u32PositionExtTime,
                   _u32PositionExtTimePrev, now, fault, dirFresh, dirRet,
                   nTicks, nAdv, nDirs>>

\* the difference taken the wrong way round
getMillisBetweenRotations_exchanged ==
    /\ op' = "getMillisBetweenRotations" /\ arg' = 0 /\ pre' = Snapshot
    /\ ret' = U32Sub(_u32PositionExtTimePrev, _u32PositionExtTime)
    /\ UNCHANGED <<irq, _eMode, fields, now, fault, run, dirFresh, lastSet, dirRet, mirror,
                   nTicks, nSets, nAdv, nDirs>>

getMillisBetweenRotations ==
    /\ op' = "getMillisBetweenRotations" /\ arg' = 0 /\ pre' = Snapshot
    /\ ret' = U32Sub(_u32PositionExtTime, _u32PositionExtTimePrev)
    /\ UNCHANGED <<irq, _eMode, fields, now, fault, run, dirFresh, lastSet, dirRet, mirror,
                   nTicks, nSets, nAdv, nDirs>>

\* 60000.0 / (float)d truncated to uint32_t, for d # 0: a d above 60000
\* gives a quotient below 1, a smaller d is exact as a float
Quotient(d) == IF d[1] > 0 THEN U32(0) ELSE U32(60000 \div d[2])

\* what the conversion of an infinite quotient to uint32_t may produce
InfAsU32 == {U32(0), U32Max32}

getRPM ==
    /\ op' = "getRPM" /\ arg' = 0 /\ pre' = Snapshot
    /\ LET timeBetweenLastPositions ==
               U32Sub(_u32PositionExtTime, _u32PositionExtTimePrev)
           timeToLastPosition == U32Sub(now, _u32PositionExtTime)
           t == max(timeBetweenLastPositions, timeToLastPosition)
           d == U32Mul20(t)
       IN  IF d = U32(0)
           THEN /\ ret' \in InfAsU32
                /\ fault' = "div0"
           ELSE /\ ret' = Quotient(d)
                /\ fault' = fault
    /\ UNCHANGED <<irq, _eMode, fields, now, run, dirFresh, lastSet, dirRet, mirror,
                   nTicks, nSets, nAdv, nDirs>>

\* the millisecond clock moves on between two operations
millis(d) ==
    /\ nAdv < MaxAdv
    /\ nAdv' = nAdv + 1
    /\ now' = U32Add(now, d)
    /\ UNCHANGED <<irq, _eMode, fields, op, arg, ret, pre, fault, run, dirFresh,
                   lastSet, dirRet, mirror, nTicks, nSets, nDirs>>

\* position side of the decoder: sampling, override and the position queries
Next ==
    \/ \E thisState \in 0..3 : tick(thisState)
    \/ \E newPosition \in NewPositions : setPosition(newPosition)
    \/ getPosition
    \/ getDirection

Spec == Init /\ [][Next]_vars

\* timing side of the decoder: sampling, the clock and the timing queries
NextTime ==
    \/ \E thisState \in 0..3 : tick(thisState)
    \/ \E d \in Delays : millis(d)
    \/ getMillisBetweenRotations
    \/ getRPM

SpecTime == Init /\ [][NextTime]_vars

-----------------------------------------------------------------------------
(* The accessors statement by statement, tick() called from an interrupt *)

\* fewer than MaxIrqSteps ticks and accessor calls were started
WithinIrqSteps == nTicks + irq.calls < MaxIrqSteps

\* the order in which the two operands of a subtraction are read
Operands == {"last", "prior"}

\* getMillisBetweenRotations(): the first operand is read
gmRead(first) ==
    /\ irq.pc = "idle"
    /\ WithinIrqSteps
    /\ irq' = [irq EXCEPT !.pc = "gm", !.calls = @ + 1, !.first = first,
                 !.a = IF first = "last" THEN _u32PositionExtTime
                       ELSE _u32PositionExtTimePrev,
                 !.time0 = _u32PositionExtTime,
                 !.timePrev0 = _u32PositionExtTimePrev,
                 !.ticks0 = nTicks]
    /\ UNCHANGED <<_eMode, fields, now, op, arg, ret, pre, fault, run,
                   dirFresh, lastSet, dirRet, mirror,
                   nTicks, nSets, nAdv, nDirs>>

\* getMillisBetweenRotations(): the other operand is read, the difference
\* returned
gmReturn ==
    /\ irq.pc = "gm"
    /\ LET last == IF irq.first = "last" THEN irq.a ELSE _u32PositionExtTime
           prior == IF irq.first = "prior" THEN irq.a
                    ELSE _u32PositionExtTimePrev
       IN  ret' = U32Sub(last, prior)
    /\ op' = "getMillisBetweenRotations" /\ arg' = 0 /\ pre' = Snapshot
    /\ irq' = [irq EXCEPT !.pc = "idle"]
    /\ UNCHANGED <<_eMode, fields, now, fault, run, dirFresh, lastSet, dirRet,
                   mirror, nTicks, nSets, nAdv, nDirs>>

\* getRPM(): the first operand of timeBetweenLastPositions is read
rpmRead(first) ==
    /\ irq.pc = "idle"
    /\ WithinIrqSteps
    /\ irq' = [irq EXCEPT !.pc = "rpm1", !.calls = @ + 1, !.first = first,
                 !.a = IF first = "last" THEN _u32PositionExtTime
                       ELSE _u32PositionExtTimePrev,
                 !.time0 = _u32PositionExtTime,
                 !.timePrev0 = _u32PositionExtTimePrev,
                 !.ticks0 = nTicks]
    /\ UNCHANGED <<_eMode, fields, now, op, arg, ret, pre, fault, run,
                   dirFresh, lastSet, dirRet, mirror,
                   nTicks, nSets, nAdv, nDirs>>

\* getRPM(): the other operand is read, timeBetweenLastPositions computed;
\* a keeps the value read for _u32PositionExtTime
rpmBetween ==
    /\ irq.pc = "rpm1"
    /\ LET last == IF irq.first = "last" THEN irq.a ELSE _u32PositionExtTime
           prior == IF irq.first = "prior" THEN irq.a
                    ELSE _u32PositionExtTimePrev
       IN  irq' = [irq EXCEPT !.pc = "rpm2", !.a = last,
                     !.between = U32Sub(last, prior)]
    /\ UNCHANGED <<_eMode, fields, now, op, arg, ret, pre, fault, run,
                   dirFresh, lastSet, dirRet, mirror,
                   nTicks, nSets, nAdv, nDirs>>

\* getRPM(): timeToLastPosition, t and the quotient; _u32PositionExtTime is
\* not volatile, so the value read before may be used again (reuse) or the
\* member read again
rpmReturn(reuse) ==
    /\ irq.pc = "rpm2"
    /\ LET timeBetweenLastPositions == irq.between
           timeToLastPosition ==
               U32Sub(now, IF reuse THEN irq.a ELSE _u32PositionExtTime)
           t == max(timeBetweenLastPositions, timeToLastPosition)
           d == U32Mul20(t)
       IN  IF d = U32(0)
           THEN /\ ret' \in InfAsU32
                /\ fault' = "div0"
           ELSE /\ ret' = Quotient(d)
                /\ fault' = fault
    /\ op' = "getRPM" /\ arg' = 0 /\ pre' = Snapshot
    /\ irq' = [irq EXCEPT !.pc = "idle"]
    /\ UNCHANGED <<_eMode, fields, now, run, dirFresh, lastSet, dirRet,
                   mirror, nTicks, nSets, nAdv, nDirs>>

\* getDirection(): the two comparisons choose the branch
dirCompare ==
    /\ irq.pc = "idle"
    /\ nDirs < MaxDirs
    /\ WithinIrqSteps
    /\ irq' = [irq EXCEPT !.pc = "dir", !.calls = @ + 1, !.ticks0 = nTicks,
                 !.branch = IF _i32PositionExtPrev > _i32PositionExt
                            THEN "COUNTERCLOCKWISE"
                            ELSE IF _i32PositionExtPrev < _i32PositionExt
                            THEN "CLOCKWISE"
                            ELSE "NOROTATION"]
    /\ UNCHANGED <<_eMode, fields, now, op, arg, ret, pre, fault, run,
                   dirFresh, lastSet, dirRet, mirror,
                   nTicks, nSets, nAdv, nDirs>>

\* getDirection(): the branch stores the external position, read again
\* because it is volatile, and returns
dirStore ==
    /\ irq.pc = "dir"
    /\ nDirs' = nDirs + 1
    /\ _i32PositionExtPrev' = _i32PositionExt
    /\ ret' = irq.branch
    /\ dirRet' = irq.branch
    /\ dirFresh' = TRUE
    /\ op' = "getDirection" /\ arg' = 0 /\ pre' = Snapshot
    /\ irq' = [irq EXCEPT !.pc = "idle",
                 !.base = _i32PositionExt,
                 !.prevMissed = irq.missed,
                 !.missed = (irq.branch = "NOROTATION"
                              /\ _i32PositionExt # irq.base)]
    /\ UNCHANGED <<_eMode, _i08OldState, _i32Position, _i32PositionExt,
                   _u32PositionExtTime, _u32PositionExtTimePrev, now, fault,
                   run, lastSet, mirror, nTicks, nSets, nAdv>>

\* the loop calls the accessors, the interrupt calls tick() between any two
\* of their statements; the clock stands still meanwhile
NextIrq ==
    \/ WithinIrqSteps /\ \E thisState \in 0..3 : tick(thisState)
    \/ \E first \in Operands : gmRead(first)
    \/ gmReturn
    \/ \E first \in Operands : rpmRead(first)
    \/ rpmBetween
    \/ \E reuse \in BOOLEAN : rpmReturn(reuse)
    \/ dirCompare
    \/ dirStore

SpecIrq == Init /\ [][NextIrq]_vars

\* fewer than MaxOps state-changing steps were taken
WithinOps == nTicks + nSets + nAdv + nDirs < MaxOps

\* the whole interface, called from one loop
NextAll ==
    \/ WithinOps /\ \E thisState \in 0..3 : tick(thisState)
    \/ WithinOps /\ \E newPosition \in NewPositions : setPosition(newPosition)
    \/ getPosition
    \/ WithinOps /\ getDirection
    \/ getMillisBetweenRotations
    \/ getRPM
    \/ WithinOps /\ \E d \in Delays : millis(d)

SpecAll == Init /\ [][NextAll]_vars

-----------------------------------------------------------------------------
(* Properties *)

\* the transition table as the specification prints it, by
\* index (prevState << 2) | curState
TABLE == [i \in 0..15 |->
            CASE i \in {1, 7, 8, 14} -> -1
              [] i \in {2, 4, 11, 13} -> 1
              [] OTHER -> 0]

\* the 2^(31-shift) limit of the positions that survive the left shift
SetLimit(mode) == IF mode = "TWO03" THEN Two30 ELSE Two29

\* 2^shift of the mode of this decoder
SetLimitDivisor == IF _eMode = "TWO03" THEN 2 ELSE 4

FitsShift(mode, n) == (-SetLimit(mode) <= n) /\ (n < SetLimit(mode))

\* C1: one tick() from stored state prev with sample cur changes
\* internalPosition by exactly TABLE[(prev << 2) | cur] (with int32
\* wraparound) and leaves rawState equal to cur, in every mode.
C1_TickAddsTableDelta ==
    (op = "tick") =>
        /\ _i32Position = AddWrap(pre.pos, TABLE[4 * pre.state + arg])
        /\ _i08OldState = arg

\* C1 witness: a tick that counted down, one that counted up is analogous
C1_Witness ==
    /\ op = "tick" /\ arg # pre.state
    /\ _i32Position = pre.pos - 1
    /\ _i08OldState = arg
    /\ ~IsLatchState(_eMode, arg)

\* C2 as stated: externalPosition == internalPosition >> shift in every
\* reachable state of every mode.
C2_Original ==
    _i32PositionExt = _i32Position \div (IF _eMode = "TWO03" THEN 2 ELSE 4)

\* C2 as amended: externalPosition == internalPosition >> shift whenever
\* rawState is a latch state of the mode or setPosition() made the latest
\* change, unless the value of that setPosition() did not fit 32 - shift bits.
C2_ExtIsShiftedAtLatch ==
    ((IsLatchState(_eMode, _i08OldState) \/ lastSet = "exact")
        /\ lastSet # "wrapped")
    => _i32PositionExt = _i32Position \div (IF _eMode = "TWO03" THEN 2 ELSE 4)

\* C2 witness: a latch reached going down, with a negative internal position
\* that is not a multiple of the detent
C2_Witness ==
    /\ op = "tick" /\ arg # pre.state /\ IsLatchState(_eMode, arg)
    /\ _i32Position < 0
    /\ _i32Position % 4 # 0
    /\ _i32PositionExt # pre.ext

\* C3: a tick() whose sample equals the stored rawState changes no field.
C3_SameSampleChangesNothing ==
    (op = "tick" /\ arg = pre.state) =>
        /\ _i08OldState = pre.state
        /\ _i32Position = pre.pos
        /\ _i32PositionExt = pre.ext
        /\ _i32PositionExtPrev = pre.prev
        /\ _u32PositionExtTime = pre.time
        /\ _u32PositionExtTimePrev = pre.timePrev

\* C3 witness: such a tick in a latch state, at a time other than the last latch
C3_Witness ==
    /\ op = "tick" /\ arg = pre.state
    /\ IsLatchState(_eMode, arg)
    /\ now # _u32PositionExtTime

\* C4: a run of single-bit ticks in one direction from a latch state to the
\* next latch state is one full detent (4 ticks, 2 in TWO03) and changes
\* externalPosition by exactly +1 in the order 3,1,0,2,3 and by exactly -1
\* in the reverse order, absent int32 wraparound.
C4_DetentMovesExtByOne ==
    (/\ run.len > 0
     /\ IsLatchState(_eMode, _i08OldState)
     /\ ~run.wrapped0
     /\ run.pos0 <= MaxInt32 - 4
     /\ run.pos0 >= MinInt32 + 4)
    => /\ run.len = StepsPerDetent(_eMode)
       /\ _i32PositionExt = run.ext0 + run.dir

\* C4 witness: a full detent backwards in the mode that latches at 0, from
\* an internal position that is not a multiple of 4
C4_Witness ==
    /\ _eMode = "FOUR0"
    /\ IsLatchState(_eMode, _i08OldState)
    /\ run.len = 4 /\ run.dir = -1
    /\ run.pos0 % 4 # 0
    /\ _i32PositionExt = run.ext0 - 1

\* C5: getDirection() returns CLOCKWISE, COUNTERCLOCKWISE or NOROTATION
\* exactly when externalPosition is greater than, less than or equal to
\* previousExternalPosition, and always leaves the two equal.
C5_DirectionComparesAndConsumes ==
    (op = "getDirection") =>
        /\ (ret = "CLOCKWISE") <=> (pre.ext > pre.prev)
        /\ (ret = "COUNTERCLOCKWISE") <=> (pre.ext < pre.prev)
        /\ (ret = "NOROTATION") <=> (pre.ext = pre.prev)
        /\ _i32PositionExtPrev = _i32PositionExt
        /\ _i32PositionExt = pre.ext

\* C5 witness: a query that reports a step backwards
C5_Witness ==
    /\ op = "getDirection"
    /\ ret = "COUNTERCLOCKWISE"
    /\ pre.ext < pre.prev

\* C6 as stated: of two getDirection() calls with no tick() between them,
\* both return NOROTATION.
C6_Original ==
    (op = "getDirection" /\ pre.fresh) =>
        (ret = "NOROTATION" /\ pre.dirRet = "NOROTATION")

\* C6 as amended: of two getDirection() calls with no tick() between them,
\* the second returns NOROTATION (the first reports what moved before it).
C6_SecondQueryIsNoRotation ==
    (op = "getDirection" /\ pre.fresh) => ret = "NOROTATION"

\* C6 witness: the second query after one that reported a rotation
C6_Witness ==
    /\ op = "getDirection" /\ pre.fresh
    /\ pre.dirRet = "CLOCKWISE"
    /\ ret = "NOROTATION"

\* C7: after setPosition(n), externalPosition == n and
\* previousExternalPosition == n, and rawState and both timestamps are as
\* before.
C7_SetPositionFrame ==
    (op = "setPosition") =>
        /\ _i32PositionExt = arg
        /\ _i32PositionExtPrev = arg
        /\ _i08OldState = pre.state
        /\ _u32PositionExtTime = pre.time
        /\ _u32PositionExtTimePrev = pre.timePrev

\* C7 witness: setPosition(5) when a direction was still unreported
C7_Witness ==
    /\ op = "setPosition" /\ arg = 5
    /\ pre.ext # pre.prev
    /\ pre.prev # 5
    /\ _i32PositionExtPrev = 5

\* the next state-changing tick after a setPosition() reached a latch state
LatchRightAfterSet ==
    /\ op = "tick" /\ arg # pre.state
    /\ pre.lastSet # "none"
    /\ IsLatchState(_eMode, arg)

Within1(a, b) == (a = b) \/ (a < b /\ a + 1 = b) \/ (b < a /\ b + 1 = a)

C8_NeighbourReached ==
    /\ LatchRightAfterSet /\ pre.lastSet = "exact"
    /\ pre.pos # MaxInt32 /\ pre.pos # MinInt32
    /\ _i32PositionExt # pre.ext

\* C1, wraparound: a tick that counted up from the largest int32
C1_WrapReached ==
    /\ op = "tick" /\ pre.pos = MaxInt32 /\ _i32Position = MinInt32

\* C9: getRPM() never divides by zero; with t == 0 it returns a sentinel.
C9_NoDivisionByZero == fault # "div0"

\* a + b modulo 2^32 on two <<hi, lo>> pairs
U32Plus(a, b) ==
    LET lo == a[2] + b[2]
    IN  <<(a[1] + b[1] + (lo \div Half)) % Half, lo % Half>>

\* C10: getMillisBetweenRotations() returns (lastChangeTime -
\* priorChangeTime) mod 2^32 and changes no field: 50 after latches at 100
\* and 150, 26 after latches at 0xFFFFFFF0 and 10.
C10_MillisIsWrappedDifference ==
    (op = "getMillisBetweenRotations") =>
        /\ U32Plus(_u32PositionExtTimePrev, ret) = _u32PositionExtTime
        /\ (_u32PositionExtTimePrev = U32(100) /\ _u32PositionExtTime = U32(150))
              => ret = U32(50)
        /\ (_u32PositionExtTimePrev = <<65535, 65520>>
              /\ _u32PositionExtTime = U32(10))
              => ret = U32(26)
        /\ _i08OldState = pre.state
        /\ _i32Position = pre.pos
        /\ _i32PositionExt = pre.ext
        /\ _i32PositionExtPrev = pre.prev
        /\ _u32PositionExtTime = pre.time
        /\ _u32PositionExtTimePrev = pre.timePrev

\* C10 witness: the query after the clock wrapped between two latch ticks
C10_Witness ==
    /\ op = "getMillisBetweenRotations"
    /\ nTicks >= 2 /\ nAdv >= 1
    /\ _u32PositionExtTimePrev = <<65535, 65520>>
    /\ _u32PositionExtTime = U32(10)
    /\ ret = U32(26)

\* C10, first example: the query after latch ticks at 100 and at 150
C10_PlainReached ==
    /\ op = "getMillisBetweenRotations"
    /\ _u32PositionExtTimePrev = U32(100)
    /\ _u32PositionExtTime = U32(150)
    /\ ret = U32(50)

\* the t of the last getRPM(): the larger of the time between the last two
\* latches and the time from the last one to the call
C11_T ==
    LET between == U32Sub(pre.time, pre.timePrev)
        since == U32Sub(pre.now, pre.time)
    IN  IF U32Greater(since, between) THEN since ELSE between

\* C11: for every t > 0 getRPM() returns the integer part of 3000 / t.
C11_RpmIsThreeThousandOverT ==
    (op = "getRPM" /\ C11_T # U32(0)) =>
        ret = (IF C11_T[1] > 0 THEN U32(0) ELSE U32(3000 \div C11_T[2]))

\* C12: right after construction rawState is 3, the three positions are 0
\* and both timestamps are 0.
C12_ConstructedState ==
    (op = "new") =>
        /\ _i08OldState = 3
        /\ _i32Position = 0
        /\ _i32PositionExt = 0
        /\ _i32PositionExtPrev = 0
        /\ _u32PositionExtTime = U32(0)
        /\ _u32PositionExtTimePrev = U32(0)

\* C14: a tick() that leaves externalPosition unchanged leaves both
\* timestamps unchanged.
C14_TimesFollowPositionChanges ==
    (op = "tick" /\ _i32PositionExt = pre.ext) =>
        /\ _u32PositionExtTime = pre.time
        /\ _u32PositionExtTimePrev = pre.timePrev

\* C16: no tick() changes previousExternalPosition, and a tick() whose new
\* raw state is not a latch state changes only rawState and internalPosition.
C16_TickFrame ==
    (op = "tick") =>
        /\ _i32PositionExtPrev = pre.prev
        /\ ~IsLatchState(_eMode, arg) =>
              /\ _i32PositionExt = pre.ext
              /\ _u32PositionExtTime = pre.time
              /\ _u32PositionExtTimePrev = pre.timePrev

\* C16 witness: a step away from a latch state, with a direction still
\* unreported, after which the internal position is in another detent
C16_Witness ==
    /\ op = "tick" /\ arg # pre.state
    /\ ~IsLatchState(_eMode, arg)
    /\ _i32Position # pre.pos
    /\ _i32Position \div SetLimitDivisor # _i32PositionExt
    /\ pre.prev # pre.ext
    /\ lastSet = "none" /\ pre.lastSet = "none"

\* both input bits differ between the two raw states
BothBitsDiffer(a, b) == a + b = 3

\* C19 as stated: a tick() that sees both bits changed leaves
\* internalPosition and externalPosition as they were.
C19_Original ==
    (op = "tick" /\ BothBitsDiffer(pre.state, arg)) =>
        /\ _i32Position = pre.pos
        /\ _i32PositionExt = pre.ext

\* C19 as amended: a tick() that sees both bits changed leaves
\* internalPosition as it was; externalPosition stays as it was when the
\* new raw state is not a latch state, and otherwise becomes
\* internalPosition >> shift, which commits the steps counted since the
\* last latch.
C19_TwoBitChangeCountsNothing ==
    (op = "tick" /\ BothBitsDiffer(pre.state, arg)) =>
        /\ _i32Position = pre.pos
        /\ _i08OldState = arg
        /\ IF IsLatchState(_eMode, arg)
           THEN _i32PositionExt = _i32Position \div SetLimitDivisor
           ELSE _i32PositionExt = pre.ext

\* C19 witness: the jump 0 -> 3 into a latch state after two counted steps,
\* no setPosition() involved
C19_Witness ==
    /\ op = "tick" /\ BothBitsDiffer(pre.state, arg)
    /\ IsLatchState(_eMode, arg)
    /\ nSets = 0
    /\ _i32Position = pre.pos
    /\ _i32PositionExt # pre.ext

\* C19, the other case: a jump between the two states that latch nowhere
C19_NoLatchReached ==
    /\ op = "tick" /\ BothBitsDiffer(pre.state, arg)
    /\ ~IsLatchState(_eMode, arg)
    /\ _i32Position # 0

\* C20 as stated: fed the sample sequence with raw states 1 and 2
\* exchanged, a decoder has the negated internalPosition and the negated
\* externalPosition after every tick.
C20_Original ==
    mirror.valid =>
        /\ mirror.pos = -_i32Position
        /\ mirror.ext = -_i32PositionExt

\* C20 as amended: fed the exchanged sequence, a decoder has the negated
\* internalPosition after every tick; its externalPosition is the negated
\* one when internalPosition was a multiple of 2^shift at the last latch,
\* and the negated one minus 1 otherwise, because >> rounds down.
C20_MirrorNegatesInternal ==
    mirror.valid =>
        /\ mirror.state = Exchanged(_i08OldState)
        /\ mirror.pos = -_i32Position
        /\ mirror.ext = IF mirror.aligned THEN -_i32PositionExt
                        ELSE (-_i32PositionExt) - 1

\* C20 witness: one detent clockwise against one detent the other way
C20_Witness ==
    /\ mirror.valid /\ mirror.aligned
    /\ IsLatchState(_eMode, _i08OldState)
    /\ _i32Position = 4 /\ mirror.pos = -4
    /\ _i32PositionExt = 1 /\ mirror.ext = -1

\* C20, the odd case: two valid steps each way in the mode that latches at 0
C20_OffByOneReached ==
    /\ mirror.valid /\ ~mirror.aligned
    /\ _eMode = "FOUR0" /\ nTicks = 2
    /\ _i32Position = 2 /\ mirror.pos = -2
    /\ _i32PositionExt = 0 /\ mirror.ext = -1

\* C13: getPosition(), getMillisBetweenRotations() and getRPM() change no
\* field, and getDirection() changes only previousExternalPosition.
C13_AccessorsFrame ==
    /\ (op \in {"getPosition", "getMillisBetweenRotations", "getRPM"}) =>
          /\ _i08OldState = pre.state
          /\ _i32Position = pre.pos
          /\ _i32PositionExt = pre.ext
          /\ _i32PositionExtPrev = pre.prev
          /\ _u32PositionExtTime = pre.time
          /\ _u32PositionExtTimePrev = pre.timePrev
    /\ (op = "getDirection") =>
          /\ _i08OldState = pre.state
          /\ _i32Position = pre.pos
          /\ _i32PositionExt = pre.ext
          /\ _u32PositionExtTime = pre.time
          /\ _u32PositionExtTimePrev = pre.timePrev

\* C13 witness: a direction query that does change the snapshot
C13_Witness ==
    /\ op = "getDirection"
    /\ _i32PositionExtPrev # pre.prev
    /\ _i32PositionExt = pre.ext
    /\ _u32PositionExtTime # _u32PositionExtTimePrev

\* C13, the other accessors: a speed query with a result, a position query
\* with a direction unreported
C13_RpmReached ==
    /\ op = "getRPM" /\ fault = "none" /\ ret # U32(0)

C13_PositionReached ==
    /\ op = "getPosition" /\ pre.prev # pre.ext /\ ret = pre.ext

RpmResults(last, prior, clock) ==
    LET between == U32Sub(last, prior)
        since == U32Sub(clock, last)
        t == IF U32Greater(between, since) THEN between ELSE since
        d == U32Mul20(t)
    IN  IF d = U32(0) THEN InfAsU32 ELSE {Quotient(d)}

\* exactly one tick() ran inside the accessor call that has just returned
OneTickInside == nTicks = irq.ticks0 + 1

\* C17: with one tick() inside getMillisBetweenRotations() or getRPM(), the
\* result is the one of the call run entirely before or entirely after
\* that tick.
C17_AccessorSeesConsistentPair ==
    /\ (op = "getMillisBetweenRotations" /\ OneTickInside) =>
          \/ ret = U32Sub(irq.time0, irq.timePrev0)
          \/ ret = U32Sub(pre.time, pre.timePrev)
    /\ (op = "getRPM" /\ OneTickInside) =>
          \/ ret \in RpmResults(irq.time0, irq.timePrev0, pre.now)
          \/ ret \in RpmResults(pre.time, pre.timePrev, pre.now)

\* C18: when a getDirection() returned NOROTATION although externalPosition
\* had left the value of the call before, the next call reports a rotation.
C18_NoChangeUnreported ==
    (op = "getDirection" /\ irq.prevMissed) => ret # "NOROTATION"

====
